---- MODULE Spec2Model ----
(***************************************************************************)
(* Model of the CodeEditor component of react-native-code-editor           *)
(* (src/src/CodeEditor.tsx): the controlled text value, the recorded       *)
(* selection, the 10 ms deferred edits scheduled by key presses, and the   *)
(* editing helpers they call (braces, indentation, strings); its props,    *)
(* effects, scroll, size and focus handling; and the scroll handling of    *)
(* the SyntaxHighlighter (src/src/SyntaxHighlighter.tsx).                  *)
(*                                                                         *)
(* A string is a sequence of one-character strings.  Offsets are the       *)
(* zero-based offsets of the source; sequences are one-based.              *)
(***************************************************************************)
EXTENDS Integers, Sequences, FiniteSets, TLC

\* ------------------------------------------------------------ bounds ----
\* Longest text an event (initialValue, onChangeText) delivers, and the
\* largest selection offset an onSelectionChange event reports.
MaxLen == 2
\* Longest document an editing session (EditSpec) starts from.
MaxDoc == 4
\* Most deferred edits (setTimeout callbacks) pending at one time.
MaxTimers == 1
\* Longest text handed to a helper or delivered to a text session.
MaxText == 4
\* Largest indentation level rendered directly.
MaxLevel == 3
\* Largest height (content height, minHeight, maxHeight) and largest
\* vertical scroll offset an event reports.
MaxHeight == 2
MaxOffset == 2

\* Characters that occur in delivered texts.
Chars == {"{", "\n", "\t"}
\* Characters of the documents of the editing sessions.
DocChars == {"{", "}", "\"", "\n"}
\* Keys the user presses: Enter, a nesting opener, a plain key; the editing
\* sessions also press a quote.
Keys == {"Enter", "{", "a"}
EditKeys == Keys \cup {"\""}
\* Keys of the key sessions: every opener and closing delimiter, Enter, a
\* plain character and a multi-character key name.
AllKeys == {"{", "[", "(", "\"", "'", "backquote", "}", "]", ")",
            "Enter", "a", "Backspace"}
\* Characters of the documents of the indentation sessions.
IndentChars == {" ", "{", "}", "\n"}

Texts == UNION {[1..n -> Chars] : n \in 0..MaxLen}
Docs == UNION {[1..n -> DocChars] : n \in 0..MaxDoc}
Selections == {sel \in [start : 0..MaxLen, end : 0..MaxLen] : sel.start <= sel.end}
Cursors == {[start |-> i, end |-> i] : i \in 0..MaxDoc}
KeyDocs == UNION {[1..n -> {"a"}] : n \in 0..MaxLen}
IndentDocs == UNION {[1..n -> IndentChars] : n \in 0..MaxDoc}

\* Arguments of the direct helper calls: texts of nesting delimiters,
\* newlines and spaces (split into lines), single characters, levels.
LineChars == {"{", "}", "(", ")", "\n", " "}
LineTexts == UNION {[1..n -> LineChars] : n \in 0..MaxText}
Levels == 0..MaxLevel

\* Texts of the text sessions: plain characters and tabs.
TabChars == {"a", "b", "\t"}
TabTexts == UNION {[1..n -> TabChars] : n \in 0..MaxText}

\* Heights and scroll offsets the events report, and the values of the
\* minHeight and maxHeight style entries (-1: not given).
Heights == 0..MaxHeight
Offsets == 0..MaxOffset
StyleHeights == {-1} \cup Heights

\* ------------------------------------------- JavaScript string helpers --
Max(a, b) == IF a >= b THEN a ELSE b
Min(a, b) == IF a <= b THEN a ELSE b

\* String.prototype.substring(a, b): arguments are clamped to [0, length]
\* and swapped when a > b.
substring(str, a, b) ==
    LET ca == Min(Max(a, 0), Len(str))
        cb == Min(Max(b, 0), Len(str))
        lo == Min(ca, cb)
        hi == Max(ca, cb)
    IN  SubSeq(str, lo + 1, hi)

\* `str[i] || ''`: the character at offset i, the empty string outside.
charAt(str, i) == IF i >= 0 /\ i < Len(str) THEN str[i + 1] ELSE ""

\* String.prototype.split('\n'): always at least one (possibly empty) line.
RECURSIVE splitAcc(_, _, _)
splitAcc(str, cur, acc) ==
    IF str = <<>> THEN Append(acc, cur)
    ELSE IF Head(str) = "\n" THEN splitAcc(Tail(str), <<>>, Append(acc, cur))
    ELSE splitAcc(Tail(str), Append(cur, Head(str)), acc)

split(str) == splitAcc(str, <<>>, <<>>)

\* ------------------------------------------------------------ braces ----
\* The backquote character (the lexer of TLA+ has no literal for it).
BACKQUOTE == "backquote"

\* The Brace Pair Table.
braces == [c \in {"{", "[", "(", "\"", "'", BACKQUOTE} |->
             CASE c = "{" -> "}"
               [] c = "[" -> "]"
               [] c = "(" -> ")"
               [] OTHER   -> c]

isOpenBrace(ch) == ch \in DOMAIN braces

getCloseBrace(ch) == IF ch \in DOMAIN braces THEN <<braces[ch]>> ELSE <<>>

\* A variant of isBracePair that accepts any closing character of the
\* table after an opener.
isBracePairAnyCloser(left, right) ==
    isOpenBrace(left) /\ \E o \in DOMAIN braces : right = braces[o]

isBracePair(left, right) == isOpenBrace(left) /\ right = braces[left]

isRegularBrace(ch) == ch \in {"{", "[", "("}

isRegularClose(ch) == ch \in {"}", "]", ")"}

\* Single characters handed to the brace helpers: the delimiters, a plain
\* character and the empty string (no character at that offset).
BraceChars == DOMAIN braces \cup {"}", "]", ")", "a", ""}

\* ------------------------------------------------------- indentation ----
INDENT_SIZE == 4

\* Net opens minus closes of the nesting delimiters of one line.
RECURSIVE lineDepth(_)
lineDepth(line) ==
    IF line = <<>> THEN 0
    ELSE (IF isRegularBrace(Head(line)) THEN 1
          ELSE IF isRegularClose(Head(line)) THEN -1 ELSE 0)
         + lineDepth(Tail(line))

RECURSIVE depthOf(_)
depthOf(lines) ==
    IF lines = <<>> THEN 0 ELSE lineDepth(Head(lines)) + depthOf(Tail(lines))

\* Variants of suggestedIndent with one slip each: no clamp, and a line
\* that consists solely of a closing delimiter left out of the count.
suggestedIndentUnclamped(lines) == depthOf(lines)

suggestedIndentSkipClosers(lines) ==
    LET counted(line) == ~(Len(line) = 1 /\ isRegularClose(line[1]))
    IN  Max(depthOf(SelectSeq(lines, counted)), 0)

\* The suggested level: the final depth, clamped to >= 0.
suggestedIndent(lines) == Max(depthOf(lines), 0)

getSuggestedIndentSize(lines) == INDENT_SIZE * suggestedIndent(lines)

\* A variant of createIndentString that is one space short
\* (Array(size).join(' ')).
createIndentStringShort(size) == [i \in 1..Max(size - 1, 0) |-> " "]

createIndentString(size) == [i \in 1..Max(size, 0) |-> " "]

\* The indentation of a level: `level` repetitions of the Indent Unit.
indentString(level) == createIndentString(INDENT_SIZE * level)

\* ----------------------------------------------------------- strings ----
\* Inserts strToInsert right after the character at offset `position`.
insertStringAt(str, position, strToInsert) ==
    LET at == Min(Max(position + 1, 0), Len(str))
    IN  SubSeq(str, 1, at) \o strToInsert \o SubSeq(str, at + 1, Len(str))

RECURSIVE convertTabsToSpaces(_)
convertTabsToSpaces(text) ==
    IF text = <<>> THEN <<>>
    ELSE (IF Head(text) = "\t" THEN createIndentString(INDENT_SIZE)
          ELSE <<Head(text)>>)
         \o convertTabsToSpaces(Tail(text))

\* ------------------------------------------------------------- state ----
VARIABLES
    value,           \* useState<string>(initialValue)
    inputSelection,  \* useRef<TextInputSelectionType>
    timers,          \* pending setTimeout(..., 10) callbacks, oldest first
    applied,         \* the deferred edit the last step applied, if any
    probe,           \* the helper call or event input of the last step, if any
    props,           \* the props the component was mounted with
    handleValue,     \* the value the forwarded ref's getValue returns
    onChangeArg,     \* the argument of the last onChange call
    contentKey,      \* SyntaxHighlighter: contentKey ref (children last seen)
    shouldMaintainScrollTop,  \* useRef<boolean>(true)
    resetTimer,      \* the 500 ms reset timer of the flag is pending
    highlighterY,    \* vertical scroll offset of the highlighter's ScrollView
    scrollTimers,    \* delayed scrollTo({y: 0}) callbacks are pending
    inputY,          \* vertical scroll offset of the text input
    contentHeight,   \* useState<number>(0)
    focusCount,      \* calls of inputRef.current.focus() so far
    initialRenderComplete,    \* useRef<boolean>(false)
    mountTimers,     \* pending timers of the mount effects, by delay
    isInitialRender  \* SyntaxHighlighter: isInitialRender ref

\* The variables a commit of a new value and its effects write.
renderVars == <<handleValue, onChangeArg, contentKey, shouldMaintainScrollTop,
                resetTimer, highlighterY, scrollTimers>>

\* The props and the variables only mount, focus and size steps write.
mountVars == <<props, contentHeight, focusCount, initialRenderComplete,
               mountTimers, isInitialRender>>

vars == <<value, inputSelection, timers, applied, probe, renderVars, inputY,
          mountVars>>

\* A prop or style entry that was not given (undefined).
Unset == -1

\* The props with their defaults: readOnly = false, autoFocus = true,
\* autoGrow = false, no minHeight or maxHeight; the highlighter is rendered
\* without preserveScrollPosition (false).
DefaultProps == [readOnly |-> FALSE, autoFocus |-> TRUE, autoGrow |-> FALSE,
                 minHeight |-> Unset, maxHeight |-> Unset,
                 preserveScrollPosition |-> FALSE]

\* The timers the mount effects leave pending, in the order of their delays:
\* scrollToTop (0 ms), handleInitialRender (50, 150, 300 ms) and, with
\* autoFocus, the focus timer of the layout effect (250 ms).
MountTimers(autoFocus) ==
    IF autoFocus
    THEN <<"scroll0", "initial50", "initial150", "focus250", "initial300">>
    ELSE <<"scroll0", "initial50", "initial150", "initial300">>

\* The state the mount of the component leaves, its effects included.
Mounted ==
    /\ handleValue = value
    /\ onChangeArg = value
    /\ contentKey = value
    /\ shouldMaintainScrollTop = TRUE
    /\ resetTimer = TRUE
    /\ highlighterY = 0
    /\ scrollTimers = TRUE
    /\ inputY = 0
    /\ contentHeight = 0
    /\ focusCount = 0
    /\ initialRenderComplete = FALSE
    /\ mountTimers = MountTimers(props.autoFocus)
    /\ isInitialRender = TRUE

\* A variant of useImperativeHandle whose dependencies leave out value.
useImperativeHandleStale(handle, oldValue, newValue) == handle

\* useImperativeHandle(..., [inputRef, value]): the handle, and with it the
\* value getValue returns, is made anew when value changed.
useImperativeHandle(handle, oldValue, newValue) ==
    IF newValue # oldValue THEN newValue ELSE handle

\* A variant of the onChange effect whose dependencies leave out value.
onChangeEffectOnce(arg, oldValue, newValue) == arg

\* useEffect(() => onChange(value), [onChange, value]): the argument of the
\* last onChange call after the commit of newValue.
onChangeEffect(arg, oldValue, newValue) ==
    IF newValue # oldValue THEN newValue ELSE arg

\* setValue(newValue), its commit and the effects that depend on value; a
\* value equal to the current one commits nothing and runs no effect.
\* `maintain` is the flag as the handler left it.
render(newValue, maintain) ==
    /\ value' = newValue
    /\ handleValue' = useImperativeHandle(handleValue, value, newValue)
    /\ onChangeArg' = onChangeEffect(onChangeArg, value, newValue)
    /\ contentKey' = newValue
    /\ IF newValue # value
       THEN /\ shouldMaintainScrollTop' = TRUE
            /\ resetTimer' = TRUE
            /\ highlighterY' = 0
            /\ scrollTimers' = TRUE
       ELSE /\ shouldMaintainScrollTop' = maintain
            /\ UNCHANGED <<resetTimer, highlighterY, scrollTimers>>

NoCursor == -100

NoEdit == [op |-> "none", val |-> <<>>, start |-> 0, end |-> 0,
           key |-> "", cursor |-> NoCursor]

NoProbe == [fn |-> "none", in |-> <<>>, out |-> <<>>]

\* moveCursor(current, amount): the position handed to setNativeProps.
moveCursor(current, amount) == current + amount

\* Variants of addIndentation with one slip each (used to show that the
\* properties below depend on the code): no dedent of the closing line,
\* dedent also for quotes, the insertion offset taken without the - 1,
\* the dedent chosen by the right character, and a dedent of one character.
addIndentationVariant(val, selection, slip) ==
    LET cursorPosition == IF slip = "offset" THEN selection.start
                          ELSE selection.start - 1
        preLines == split(substring(val, 0, cursorPosition))
        indentSize == getSuggestedIndentSize(preLines)
        leftChar == charAt(val, cursorPosition - 1)
        rightChar == charAt(val, cursorPosition + 1)
        pair == isBracePair(leftChar, rightChar)
        addedIndentionSize ==
            IF slip = "nodedent" THEN indentSize
            ELSE IF slip = "onechar" /\ isRegularBrace(leftChar)
            THEN Max(indentSize - 1, 0)
            ELSE IF slip = "byright" /\ ~isRegularBrace(rightChar)
            THEN indentSize
            ELSE IF slip = "dedentquotes" \/ isRegularBrace(leftChar)
            THEN Max(indentSize - INDENT_SIZE, 0)
            ELSE indentSize
        indentation == IF pair
                       THEN createIndentString(indentSize) \o <<"\n">>
                            \o createIndentString(addedIndentionSize)
                       ELSE createIndentString(indentSize)
    IN  [val |-> insertStringAt(val, cursorPosition, indentation),
         cursor |-> IF pair THEN moveCursor(cursorPosition, -addedIndentionSize)
                    ELSE NoCursor]

addIndentationNoDedent(val, selection) ==
    addIndentationVariant(val, selection, "nodedent")

addIndentationDedentQuotes(val, selection) ==
    addIndentationVariant(val, selection, "dedentquotes")

addIndentationAtCursor(val, selection) ==
    addIndentationVariant(val, selection, "offset")

addIndentationByRight(val, selection) ==
    addIndentationVariant(val, selection, "byright")

addIndentationOneChar(val, selection) ==
    addIndentationVariant(val, selection, "onechar")

\* addIndentation(val): the new value and the cursor set (NoCursor if none).
addIndentation(val, selection) ==
    LET cursorPosition == selection.start - 1
        preLines == split(substring(val, 0, cursorPosition))
        indentSize == getSuggestedIndentSize(preLines)
        leftChar == charAt(val, cursorPosition - 1)
        rightChar == charAt(val, cursorPosition + 1)
        pair == isBracePair(leftChar, rightChar)
        addedIndentionSize == IF isRegularBrace(leftChar)
                              THEN Max(indentSize - INDENT_SIZE, 0)
                              ELSE indentSize
        indentation == IF pair
                       THEN createIndentString(indentSize) \o <<"\n">>
                            \o createIndentString(addedIndentionSize)
                       ELSE createIndentString(indentSize)
    IN  [val |-> insertStringAt(val, cursorPosition, indentation),
         cursor |-> IF pair THEN moveCursor(cursorPosition, -addedIndentionSize)
                    ELSE NoCursor]

\* addClosingBrace(val, key)
addClosingBrace(val, key, selection) ==
    LET cursorPosition == moveCursor(selection.start, -1)
    IN  [val |-> insertStringAt(val, cursorPosition, getCloseBrace(key)),
         cursor |-> cursorPosition]

Init ==
    /\ value \in Texts
    /\ inputSelection = [start |-> 0, end |-> 0]
    /\ timers = <<>>
    /\ applied = NoEdit
    /\ probe = NoProbe
    /\ props = DefaultProps
    /\ Mounted

\* A variant of handleChangeText that pairs on text updates: a text that
\* ends with an opener schedules a closing delimiter.
handleChangeTextPairing(text) ==
    /\ render(convertTabsToSpaces(text), TRUE)
    /\ applied' = NoEdit
    /\ probe' = [fn |-> "convertTabsToSpaces", in |-> text,
                 out |-> convertTabsToSpaces(text)]
    /\ IF text # <<>> /\ isOpenBrace(text[Len(text)]) /\ Len(timers) < MaxTimers
       THEN timers' = Append(timers, text[Len(text)])
       ELSE timers' = timers
    /\ UNCHANGED <<inputSelection, inputY, mountVars>>

\* Variants of handleChangeText with one slip each: the text stored as it
\* is, and only the first tab replaced (replace without the g flag).
handleChangeTextRaw(text) ==
    /\ render(text, TRUE)
    /\ applied' = NoEdit
    /\ probe' = [fn |-> "convertTabsToSpaces", in |-> text, out |-> text]
    /\ UNCHANGED <<inputSelection, timers, inputY, mountVars>>

handleChangeTextFirstTab(text) ==
    LET tabs == {i \in 1..Len(text) : text[i] = "\t"}
        first == CHOOSE i \in tabs : \A j \in tabs : i <= j
        res == IF tabs = {} THEN text
               ELSE SubSeq(text, 1, first - 1)
                    \o createIndentString(INDENT_SIZE)
                    \o SubSeq(text, first + 1, Len(text))
    IN  /\ render(res, TRUE)
        /\ applied' = NoEdit
        /\ probe' = [fn |-> "convertTabsToSpaces", in |-> text, out |-> res]
        /\ UNCHANGED <<inputSelection, timers, inputY, mountVars>>

\* handleChangeText: setValue of the converted text, and the flag set.
handleChangeText(text) ==
    /\ render(convertTabsToSpaces(text), TRUE)
    /\ applied' = NoEdit
    /\ probe' = [fn |-> "convertTabsToSpaces", in |-> text,
                 out |-> convertTabsToSpaces(text)]
    /\ UNCHANGED <<inputSelection, timers, inputY, mountVars>>

handleSelectionChange(selection) ==
    /\ inputSelection' = selection
    /\ applied' = NoEdit
    /\ probe' = NoProbe
    /\ UNCHANGED <<value, timers, renderVars, inputY, mountVars>>

\* Variants of handleKeyPress with one slip each: the default branch
\* without its isOpenBrace test, a test that also accepts the closing
\* nesting delimiters, and onKeyPress called only for the keys that
\* schedule an edit.
handleKeyPressVariant(key, slip) ==
    LET schedules ==
            \/ key = "Enter"
            \/ isOpenBrace(key)
            \/ slip = "unguarded"
            \/ slip = "closers" /\ isRegularClose(key)
    IN  /\ IF schedules
           THEN /\ Len(timers) < MaxTimers
                /\ timers' = Append(timers, key)
           ELSE timers' = timers
        /\ applied' = NoEdit
        /\ probe' = [fn |-> "handleKeyPress", in |-> key,
                     out |-> IF schedules THEN <<key>> ELSE <<>>,
                     calls |-> IF slip = "handled" /\ ~schedules THEN <<>>
                               ELSE <<key>>]
        /\ UNCHANGED <<value, inputSelection, renderVars, inputY, mountVars>>

handleKeyPressUnguarded(key) == handleKeyPressVariant(key, "unguarded")

handleKeyPressHandledOnly(key) == handleKeyPressVariant(key, "handled")

handleKeyPressClosers(key) == handleKeyPressVariant(key, "closers")

\* handleKeyPress: `probe.out` holds the keys whose callbacks it scheduled,
\* `probe.calls` the arguments of its onKeyPress calls.
handleKeyPress(key) ==
    /\ IF key = "Enter" \/ isOpenBrace(key)
       THEN /\ Len(timers) < MaxTimers
            /\ timers' = Append(timers, key)
       ELSE timers' = timers
    /\ applied' = NoEdit
    /\ probe' = [fn |-> "handleKeyPress", in |-> key,
                 out |-> IF key = "Enter" \/ isOpenBrace(key)
                         THEN <<key>> ELSE <<>>,
                 calls |-> <<key>>]
    /\ UNCHANGED <<value, inputSelection, renderVars, inputY, mountVars>>

\* The oldest pending setTimeout callback runs: setValue(curr => ...).
timerFires ==
    /\ timers # <<>>
    /\ LET key == Head(timers)
           res == IF key = "Enter" THEN addIndentation(value, inputSelection)
                  ELSE addClosingBrace(value, key, inputSelection)
       IN  /\ render(res.val, shouldMaintainScrollTop)
           /\ applied' = [op |-> IF key = "Enter" THEN "indent" ELSE "brace",
                          val |-> value, start |-> inputSelection.start,
                          end |-> inputSelection.end, key |-> key,
                          cursor |-> res.cursor]
    /\ timers' = Tail(timers)
    /\ probe' = NoProbe
    /\ UNCHANGED <<inputSelection, inputY, mountVars>>

\* Key presses are explored on documents of at most MaxLen characters.
Next ==
    \/ \E text \in Texts : handleChangeText(text)
    \/ \E selection \in Selections : handleSelectionChange(selection)
    \/ \E key \in Keys : Len(value) <= MaxLen /\ handleKeyPress(key)
    \/ timerFires

Spec == Init /\ [][Next]_vars

\* An editing session on a document the editor was mounted with: the user
\* places the cursor and presses keys, and the deferred edits run.
InitEdit ==
    /\ value \in Docs
    /\ inputSelection = [start |-> 0, end |-> 0]
    /\ timers = <<>>
    /\ applied = NoEdit
    /\ probe = NoProbe
    /\ props = DefaultProps
    /\ Mounted

NextEdit ==
    \/ \E selection \in Cursors : handleSelectionChange(selection)
    \/ \E key \in EditKeys : Len(value) <= MaxDoc /\ handleKeyPress(key)
    \/ timerFires

EditSpec == InitEdit /\ [][NextEdit]_vars

\* An indentation session: the cursor is placed and Enter is pressed on a
\* document with leading and other spaces.
InitIndent ==
    /\ value \in IndentDocs
    /\ inputSelection = [start |-> 0, end |-> 0]
    /\ timers = <<>>
    /\ applied = NoEdit
    /\ probe = NoProbe
    /\ props = DefaultProps
    /\ Mounted

NextIndent ==
    \/ \E selection \in Cursors : handleSelectionChange(selection)
    \/ Len(value) <= MaxDoc /\ handleKeyPress("Enter")
    \/ timerFires

IndentSpec == InitIndent /\ [][NextIndent]_vars

\* A key session: every kind of key is pressed on a short document of plain
\* characters, the deferred edits run, and addClosingBrace is also called
\* directly with every kind of key.
applyAddClosingBrace(key) ==
    /\ probe' = [fn |-> "addClosingBrace", in |-> key,
                 out |-> addClosingBrace(value, key, inputSelection).val]
    /\ applied' = NoEdit
    /\ UNCHANGED <<value, inputSelection, timers, renderVars, inputY, mountVars>>

InitKey ==
    /\ value \in KeyDocs
    /\ inputSelection = [start |-> 0, end |-> 0]
    /\ timers = <<>>
    /\ applied = NoEdit
    /\ probe = NoProbe
    /\ props = DefaultProps
    /\ Mounted

NextKey ==
    \/ \E selection \in Selections : handleSelectionChange(selection)
    \/ \E key \in AllKeys : value \in KeyDocs /\ handleKeyPress(key)
    \/ timerFires
    \/ \E key \in AllKeys : applyAddClosingBrace(key)

KeySpec == InitKey /\ [][NextKey]_vars

\* ------------------------------------------- scroll, size, focus steps --
\* A variant of handleScroll without the flag test.
handleScrollAlways(y) ==
    /\ inputY' = y
    /\ highlighterY' = y
    /\ probe' = [fn |-> "handleScroll", in |-> y, out |-> y,
                 flag |-> shouldMaintainScrollTop, before |-> highlighterY]
    /\ applied' = NoEdit
    /\ UNCHANGED <<value, inputSelection, timers, handleValue, onChangeArg,
                   contentKey, shouldMaintainScrollTop, resetTimer,
                   scrollTimers, mountVars>>

\* handleScroll: the text input scrolled to offset y.
handleScroll(y) ==
    /\ inputY' = y
    /\ highlighterY' = IF ~shouldMaintainScrollTop THEN y ELSE highlighterY
    /\ probe' = [fn |-> "handleScroll", in |-> y,
                 out |-> IF ~shouldMaintainScrollTop THEN y ELSE highlighterY,
                 flag |-> shouldMaintainScrollTop, before |-> highlighterY]
    /\ applied' = NoEdit
    /\ UNCHANGED <<value, inputSelection, timers, handleValue, onChangeArg,
                   contentKey, shouldMaintainScrollTop, resetTimer,
                   scrollTimers, mountVars>>

\* The callback of the 500 ms timer of the reset effect.
resetTimerFires ==
    /\ resetTimer
    /\ shouldMaintainScrollTop' = FALSE
    /\ resetTimer' = FALSE
    /\ probe' = NoProbe
    /\ applied' = NoEdit
    /\ UNCHANGED <<value, inputSelection, timers, handleValue, onChangeArg,
                   contentKey, highlighterY, scrollTimers, inputY, mountVars>>

\* A delayed scrollTo({y: 0}) callback of forceScrollToTop runs; it may be
\* the last one pending.  The highlighter's own callbacks return early
\* under preserveScrollPosition once the initial render is over.
scrollTimerFires ==
    /\ scrollTimers
    /\ highlighterY' = IF props.preserveScrollPosition /\ ~isInitialRender
                       THEN highlighterY ELSE 0
    /\ scrollTimers' \in BOOLEAN
    /\ probe' = NoProbe
    /\ applied' = NoEdit
    /\ UNCHANGED <<value, inputSelection, timers, handleValue, onChangeArg,
                   contentKey, shouldMaintainScrollTop, resetTimer, inputY,
                   mountVars>>

\* onLayout={forceScrollToTop} of the enclosing View.
handleLayout ==
    /\ highlighterY' = 0
    /\ scrollTimers' = TRUE
    /\ probe' = NoProbe
    /\ applied' = NoEdit
    /\ UNCHANGED <<value, inputSelection, timers, handleValue, onChangeArg,
                   contentKey, shouldMaintainScrollTop, resetTimer, inputY,
                   mountVars>>

\* `maxHeightNum && ...`: undefined and 0 are falsy.
truthy(n) == n # Unset /\ n # 0

\* The height handleContentSizeChange passes to setContentHeight.
clampHeight(newHeight, minHeightNum, maxHeightNum) ==
    IF truthy(maxHeightNum) /\ newHeight > maxHeightNum THEN maxHeightNum
    ELSE IF truthy(minHeightNum) /\ newHeight < minHeightNum THEN minHeightNum
    ELSE newHeight

handleContentSizeChange(newHeight) ==
    /\ contentHeight' = IF props.autoGrow
                        THEN clampHeight(newHeight, props.minHeight,
                                         props.maxHeight)
                        ELSE contentHeight
    /\ highlighterY' = 0
    /\ probe' = [fn |-> "handleContentSizeChange", in |-> newHeight,
                 out |-> IF props.autoGrow
                         THEN clampHeight(newHeight, props.minHeight,
                                          props.maxHeight)
                         ELSE contentHeight]
    /\ applied' = NoEdit
    /\ UNCHANGED <<value, inputSelection, timers, handleValue, onChangeArg,
                   contentKey, shouldMaintainScrollTop, resetTimer,
                   scrollTimers, inputY, props, focusCount,
                   initialRenderComplete, mountTimers, isInitialRender>>

\* finalHeight = autoGrow ? contentHeight || height : height, with the
\* configured height written "height".
finalHeight ==
    IF props.autoGrow /\ contentHeight # 0 THEN contentHeight ELSE "height"

\* The next timer of the mount effects runs: scrollToTop, handleInitialRender
\* or the focus callback of the layout effect.
mountTimerFires ==
    /\ mountTimers # <<>>
    /\ LET timer == Head(mountTimers)
           focuses ==
               \/ timer = "focus250"
               \/ /\ timer \in {"initial50", "initial150", "initial300"}
                  /\ props.autoFocus
                  /\ ~initialRenderComplete
       IN  /\ focusCount' = IF focuses THEN focusCount + 1 ELSE focusCount
           /\ initialRenderComplete' = (initialRenderComplete \/ focuses)
           /\ highlighterY' = IF timer = "focus250" THEN highlighterY ELSE 0
    /\ mountTimers' = Tail(mountTimers)
    /\ probe' = NoProbe
    /\ applied' = NoEdit
    /\ UNCHANGED <<value, inputSelection, timers, handleValue, onChangeArg,
                   contentKey, shouldMaintainScrollTop, resetTimer,
                   scrollTimers, inputY, props, contentHeight,
                   isInitialRender>>

\* ------------------------------------------------ SyntaxHighlighter ----
\* The 600 ms timer of the layout effect: isInitialRender.current = false.
initialRenderTimeout ==
    /\ isInitialRender
    /\ isInitialRender' = FALSE
    /\ probe' = NoProbe
    /\ applied' = NoEdit
    /\ UNCHANGED <<value, inputSelection, timers, renderVars, inputY, props,
                   contentHeight, focusCount, initialRenderComplete,
                   mountTimers>>

\* The highlighter is rendered with new children: the ScrollView's ref
\* callback and the content effect scroll to the top unless
\* preserveScrollPosition holds and the initial render is over.
highlighterContentChange(children) ==
    /\ children # contentKey
    /\ contentKey' = children
    /\ IF ~props.preserveScrollPosition \/ isInitialRender
       THEN /\ highlighterY' = 0
            /\ scrollTimers' = TRUE
       ELSE UNCHANGED <<highlighterY, scrollTimers>>
    /\ probe' = [fn |-> "contentChange", in |-> children,
                 out |-> IF ~props.preserveScrollPosition \/ isInitialRender
                         THEN 0 ELSE highlighterY,
                 before |-> highlighterY]
    /\ applied' = NoEdit
    /\ UNCHANGED <<value, inputSelection, timers, handleValue, onChangeArg,
                   shouldMaintainScrollTop, resetTimer, inputY, mountVars>>

\* The user scrolls the highlighter's ScrollView to offset y.
highlighterScrolled(y) ==
    /\ highlighterY' = y
    /\ probe' = NoProbe
    /\ applied' = NoEdit
    /\ UNCHANGED <<value, inputSelection, timers, handleValue, onChangeArg,
                   contentKey, shouldMaintainScrollTop, resetTimer,
                   scrollTimers, inputY, mountVars>>

\* A highlighter session: a SyntaxHighlighter mounted with or without
\* preserveScrollPosition gets new children, is scrolled, and its timers
\* run.
InitHighlighter ==
    /\ value \in Texts
    /\ inputSelection = [start |-> 0, end |-> 0]
    /\ timers = <<>>
    /\ applied = NoEdit
    /\ probe = NoProbe
    /\ props \in {[DefaultProps EXCEPT !.preserveScrollPosition = b] :
                     b \in BOOLEAN}
    /\ Mounted

NextHighlighter ==
    \/ \E children \in Texts : highlighterContentChange(children)
    \/ \E y \in Offsets : highlighterScrolled(y)
    \/ scrollTimerFires
    \/ initialRenderTimeout

HighlighterSpec == InitHighlighter /\ [][NextHighlighter]_vars

\* A view session: texts arrive (also texts equal to the current value), the
\* text input scrolls, the view is laid out, and the timers run.
ViewTexts == UNION {[1..n -> {"a"}] : n \in 0..MaxLen}

InitView ==
    /\ value \in ViewTexts
    /\ inputSelection = [start |-> 0, end |-> 0]
    /\ timers = <<>>
    /\ applied = NoEdit
    /\ probe = NoProbe
    /\ props = DefaultProps
    /\ Mounted

NextView ==
    \/ \E text \in ViewTexts : handleChangeText(text)
    \/ \E y \in Offsets : handleScroll(y)
    \/ resetTimerFires
    \/ scrollTimerFires
    \/ handleLayout

ViewSpec == InitView /\ [][NextView]_vars

\* A mount session: the component is mounted with any props; the text input
\* delivers text and key events only while it is editable.
PropsSet == [readOnly : BOOLEAN, autoFocus : BOOLEAN, autoGrow : BOOLEAN,
             minHeight : StyleHeights, maxHeight : StyleHeights,
             preserveScrollPosition : {FALSE}]

\* A variant of editable that ignores readOnly.
editableAlways == TRUE

\* editable={!readOnly}
editable == ~props.readOnly

InitMount ==
    /\ value \in ViewTexts
    /\ inputSelection = [start |-> 0, end |-> 0]
    /\ timers = <<>>
    /\ applied = NoEdit
    /\ probe = NoProbe
    /\ props \in PropsSet
    /\ Mounted

NextMount ==
    \/ \E text \in ViewTexts : editable /\ handleChangeText(text)
    \/ \E key \in Keys : editable /\ value \in ViewTexts /\ handleKeyPress(key)
    \/ timerFires
    \/ \E newHeight \in Heights : handleContentSizeChange(newHeight)
    \/ mountTimerFires

MountSpec == InitMount /\ [][NextMount]_vars

\* A text session: the editor is mounted empty, texts with plain characters
\* and tabs arrive from the input, and the selection moves.
InitText ==
    /\ value = <<>>
    /\ inputSelection = [start |-> 0, end |-> 0]
    /\ timers = <<>>
    /\ applied = NoEdit
    /\ probe = NoProbe
    /\ props = DefaultProps
    /\ Mounted

NextText ==
    \/ \E text \in TabTexts : handleChangeText(text)
    \/ \E selection \in Selections : handleSelectionChange(selection)

TextSpec == InitText /\ [][NextText]_vars

\* Direct calls of the editing helpers, as addIndentation makes them, on
\* arguments of every shape; a helper keeps no state, so each call is made
\* from the initial state.
Scenario5Lines == <<<<"f", "u", "n", "c", "t", "i", "o", "n", " ", "f", "(", ")", " ", "{">>,
                    <<" ", " ", "i", "f", " ", "(", "x", ")", " ", "{">>>>

PrecedingLines == {split(text) : text \in LineTexts} \cup {<<>>, Scenario5Lines}

applyIndentString(level) ==
    /\ probe = NoProbe
    /\ probe' = [fn |-> "indentString", in |-> level,
                 out |-> indentString(level)]
    /\ UNCHANGED <<value, inputSelection, timers, applied, renderVars, inputY,
                   mountVars>>

applySuggestedIndent(lines) ==
    /\ probe = NoProbe
    /\ probe' = [fn |-> "suggestedIndent", in |-> lines,
                 out |-> suggestedIndent(lines)]
    /\ UNCHANGED <<value, inputSelection, timers, applied, renderVars, inputY,
                   mountVars>>

applyIsBracePair(left, right) ==
    /\ probe = NoProbe
    /\ probe' = [fn |-> "isBracePair", in |-> <<left, right>>,
                 out |-> isBracePair(left, right)]
    /\ UNCHANGED <<value, inputSelection, timers, applied, renderVars, inputY,
                   mountVars>>

InitHelper == InitText

NextHelper ==
    \/ \E level \in Levels : applyIndentString(level)
    \/ \E lines \in PrecedingLines : applySuggestedIndent(lines)
    \/ \E left, right \in BraceChars : applyIsBracePair(left, right)

HelperSpec == InitHelper /\ [][NextHelper]_vars

TypeOK ==
    /\ inputSelection \in Selections \cup Cursors
    /\ Len(timers) <= MaxTimers

\* ====================================================== properties ======
\* Quantities of the deferred edit recorded in `applied`.
Spaces(n) == [i \in 1..n |-> " "]

HasTab(str) == \E i \in 1..Len(str) : str[i] = "\t"

EditPreLines == split(substring(applied.val, 0, applied.start - 1))
EditIndent == INDENT_SIZE * suggestedIndent(EditPreLines)
EditLeft == charAt(applied.val, applied.start - 2)
EditRight == charAt(applied.val, applied.start)
EditHead == SubSeq(applied.val, 1, applied.start)
EditRest == SubSeq(applied.val, applied.start + 1, Len(applied.val))

\* Enter was pressed and its edit ran with the newline just left of the
\* recorded cursor.
EnterEdit ==
    /\ applied.op = "indent"
    /\ applied.start >= 1
    /\ charAt(applied.val, applied.start - 1) = "\n"

EnterInPair == EnterEdit /\ isBracePair(EditLeft, EditRight)

\* An opener was typed with a collapsed cursor and its edit ran with the
\* opener just left of the recorded cursor.
OpenerEdit ==
    /\ applied.op = "brace"
    /\ applied.start = applied.end
    /\ applied.start >= 1
    /\ charAt(applied.val, applied.start - 1) = applied.key

\* C1: the Document never contains a raw tab character, from any
\* initialValue and after any sequence of events.
C1_NoRawTab == ~HasTab(value)

\* C2: after an opener was typed with a collapsed cursor and the deferred
\* edit ran, the document is the typed text with the closer inserted right
\* after the opener and the cursor set by the component is between the two.
C2_AutoClose ==
    OpenerEdit =>
        /\ value = EditHead \o <<braces[applied.key]>> \o EditRest
        /\ applied.cursor = applied.start

\* C3: every key press of an opening delimiter schedules exactly one edit,
\* that edit inserts exactly one character, the matching closer, and
\* schedules nothing; a text change, a selection change or a deferred edit
\* never schedules an insertion (only a key press, which leaves the text
\* alone, does).
C3_OnePairPerKeyPress ==
    [][ /\ \A key \in Keys :
            (handleKeyPress(key) /\ isOpenBrace(key))
                => timers' = Append(timers, key)
        /\ timers' # timers => ~(\E text \in Texts : handleChangeText(text))
        /\ Len(timers') > Len(timers)
            => (value' = value /\ applied'.op = "none")
        /\ applied'.op = "brace"
            => /\ timers' = Tail(timers)
               /\ Len(value') = Len(value) + 1
               /\ \E i \in 0..Len(value) :
                      value' = SubSeq(value, 1, i)
                               \o <<braces[applied'.key]>>
                               \o SubSeq(value, i + 1, Len(value))
      ]_vars

\* C3 witness: an opener was pressed once, its edit ran and left exactly one
\* more character and no pending edit.
C3_Witness ==
    /\ OpenerEdit
    /\ Len(value) = Len(applied.val) + 1
    /\ timers = <<>>

\* Lines of the expanded document: the opener's line is line OpenerLine.
OpenerLine == Len(EditPreLines)
NewLines == split(value)

RECURSIVE LeadingSpaces(_)
LeadingSpaces(line) ==
    IF line # <<>> /\ Head(line) = " " THEN 1 + LeadingSpaces(Tail(line)) ELSE 0

\* C4: Enter between a matched pair gives three lines: the opener ends the
\* first, the second is an indented empty line on which the cursor set by
\* the component lies, the third holds the closing delimiter.
C4_ThreeLines ==
    EnterInPair =>
        /\ Len(NewLines) >= OpenerLine + 2
        /\ LET first == NewLines[OpenerLine]
               inner == NewLines[OpenerLine + 1]
               third == NewLines[OpenerLine + 2]
           IN  /\ first # <<>> /\ first[Len(first)] = EditLeft
               /\ inner = Spaces(Len(inner))
               /\ charAt(third, LeadingSpaces(third)) = EditRight
               /\ applied.cursor >= applied.start
               /\ applied.cursor <= applied.start + Len(inner)

\* The document after Enter between a pair, with the given indentation sizes
\* of the inner and of the closing line.
Expanded(innerSize, closingSize) ==
    EditHead \o Spaces(innerSize) \o <<"\n">> \o Spaces(closingSize) \o EditRest

\* C5 as claimed: between a pair of nesting delimiters the inner line is
\* indented by suggestedIndent + 1 unit and the closing line by
\* max(suggestedIndent - 1 unit, 0).
C5_InnerPlusOneUnit ==
    (EnterInPair /\ isRegularBrace(EditLeft)) =>
        value = Expanded(EditIndent + INDENT_SIZE,
                         Max(EditIndent - INDENT_SIZE, 0))

\* C5 amended: between a pair of nesting delimiters the inner line is
\* indented by suggestedIndent (of the text up to and including the opener)
\* and the closing line by max(suggestedIndent - 1 unit, 0).
C5_InnerIsSuggested ==
    (EnterInPair /\ isRegularBrace(EditLeft)) =>
        value = Expanded(EditIndent, Max(EditIndent - INDENT_SIZE, 0))

\* C5 witness: Enter between nesting delimiters at depth two, so that the
\* closing line keeps a non-empty indentation.
C5_Witness ==
    /\ EnterInPair
    /\ isRegularBrace(EditLeft)
    /\ EditIndent >= 2 * INDENT_SIZE
    /\ value = Expanded(EditIndent, EditIndent - INDENT_SIZE)

\* C6: between a pair of quote-like delimiters the inner line and the
\* closing line are both indented by suggestedIndent.
C6_QuotesSameIndent ==
    (EnterInPair /\ ~isRegularBrace(EditLeft)) =>
        value = Expanded(EditIndent, EditIndent)

\* C6 witness: Enter between quotes inside an open brace (indent > 0).
C6_Witness ==
    /\ EnterInPair
    /\ EditLeft = "\""
    /\ EditIndent > 0
    /\ value = Expanded(EditIndent, EditIndent)

\* C7: on Enter between a pair the cursor is moved back by the length of the
\* closing line's indentation, and the resulting offset is on the inner
\* line, at the end of its indentation.
C7_CursorOnInnerLine ==
    EnterInPair =>
        LET inner == NewLines[OpenerLine + 1]
            third == NewLines[OpenerLine + 2]
        IN  /\ applied.cursor = (applied.start - 1) - LeadingSpaces(third)
            /\ applied.cursor = applied.start + Len(inner)

\* C8: on Enter outside a pair the edit inserts the suggested indentation
\* right after the typed newline, changes no other character and does not
\* move the cursor.
C8_IndentOnly ==
    (EnterEdit /\ ~isBracePair(EditLeft, EditRight)) =>
        /\ value = EditHead \o Spaces(EditIndent) \o EditRest
        /\ applied.cursor = NoCursor

\* C8 witness: Enter after an open brace with text following the newline.
C8_Witness ==
    /\ EnterEdit
    /\ ~isBracePair(EditLeft, EditRight)
    /\ EditIndent > 0
    /\ EditRest # <<>>
    /\ value = EditHead \o Spaces(EditIndent) \o EditRest

\* C9: the deferred edit of a key press is applied before any other event
\* is processed: while an edit is pending, the next step applies it.
C9_Serialized == [][timers # <<>> => applied'.op # "none"]_vars

\* C10: whenever addIndentation or addClosingBrace runs, the recorded
\* selection is collapsed.
C10_Collapsed == applied.op # "none" => applied.start = applied.end

\* Quantities of the conversion recorded in `probe`.
TabCount(str) == Cardinality({i \in 1..Len(str) : str[i] = "\t"})
TabsBefore(str, i) == Cardinality({j \in 1..(i - 1) : str[j] = "\t"})
Converted == probe.fn = "convertTabsToSpaces"

\* C11: expandTabs is idempotent and its output contains no tab character:
\* the text a text change stores has no tab, and converting it again gives
\* the same text.
C11_Idempotent ==
    Converted =>
        /\ value = probe.out
        /\ ~HasTab(probe.out)
        /\ convertTabsToSpaces(probe.out) = probe.out

\* C11 witness: a text with a tab was delivered and stored converted.
C11_Witness ==
    /\ Converted
    /\ HasTab(probe.in)
    /\ value = probe.out
    /\ value # probe.in

\* C12: expandTabs replaces every tab by INDENT_SIZE spaces and keeps every
\* other character in its order: the output is longer by INDENT_SIZE - 1
\* per tab, the character at input index i lands at index
\* i + (INDENT_SIZE - 1) * (tabs before i), and a tab between a and b becomes
\* four spaces.
C12_EveryTab ==
    Converted =>
        LET str == probe.in
            out == probe.out
        IN  /\ value = out
            /\ Len(out) = Len(str) + (INDENT_SIZE - 1) * TabCount(str)
            /\ \A i \in 1..Len(str) :
                   LET at == i + (INDENT_SIZE - 1) * TabsBefore(str, i)
                   IN  IF str[i] = "\t"
                       THEN \A k \in 0..(INDENT_SIZE - 1) : out[at + k] = " "
                       ELSE out[at] = str[i]
            /\ str = <<"a", "\t", "b">>
                   => out = <<"a", " ", " ", " ", " ", "b">>

\* C12 witness: a text with two tabs and other characters was delivered and
\* both tabs were replaced.
C12_Witness ==
    /\ Converted
    /\ TabCount(probe.in) >= 2
    /\ TabCount(probe.in) < Len(probe.in)
    /\ Len(value) = Len(probe.in) + (INDENT_SIZE - 1) * TabCount(probe.in)
    /\ ~HasTab(value)

\* The Indent Unit.
IndentUnit == Spaces(INDENT_SIZE)

\* C13: indentString(0) is the empty string and indentString(n) is n
\* repetitions of the Indent Unit, so its length is n * INDENT_SIZE.
C13_IndentString ==
    probe.fn = "indentString" =>
        LET n == probe.in
            out == probe.out
        IN  /\ n = 0 => out = <<>>
            /\ Len(out) = n * INDENT_SIZE
            /\ \A k \in 0..(n - 1) :
                   SubSeq(out, k * INDENT_SIZE + 1, (k + 1) * INDENT_SIZE)
                       = IndentUnit

\* C13 witness: a level of two or more was rendered.
C13_Witness ==
    /\ probe.fn = "indentString"
    /\ probe.in >= 2
    /\ Len(probe.out) = probe.in * INDENT_SIZE

\* Occurrences of the characters of `set` in the lines.
Positions(lines) ==
    UNION {{<<k, i>> : i \in 1..Len(lines[k])} : k \in 1..Len(lines)}
CountIn(lines, set) ==
    Cardinality({p \in Positions(lines) : lines[p[1]][p[2]] \in set})
NetDepth(lines) ==
    CountIn(lines, {"{", "[", "("}) - CountIn(lines, {"}", "]", ")"})

\* C14: suggestedIndent returns the number of opening minus the number of
\* closing nesting delimiters over all the lines, clamped to >= 0; 0 for
\* no lines; 2 for the lines "function f() {" and "  if (x) {".
C14_FinalDepth ==
    probe.fn = "suggestedIndent" =>
        /\ probe.out = (IF NetDepth(probe.in) >= 0 THEN NetDepth(probe.in)
                        ELSE 0)
        /\ probe.in = <<>> => probe.out = 0
        /\ probe.in = Scenario5Lines => probe.out = 2

\* C14 witness: the two lines of the example were scanned.
C14_Witness ==
    /\ probe.fn = "suggestedIndent"
    /\ probe.in = Scenario5Lines
    /\ probe.out = 2

\* The delimiters of the text nest properly: every closer closes the
\* nearest open opener, of its own kind, and none stays open.
RECURSIVE Matches(_, _)
Matches(str, open) ==
    IF str = <<>> THEN open = <<>>
    ELSE IF Head(str) \in {"{", "[", "("}
         THEN Matches(Tail(str), <<braces[Head(str)]>> \o open)
    ELSE IF Head(str) \in {"}", "]", ")"}
         THEN /\ open # <<>>
              /\ Head(open) = Head(str)
              /\ Matches(Tail(str), Tail(open))
    ELSE Matches(Tail(str), open)

RECURSIVE Flatten(_)
Flatten(lines) ==
    IF lines = <<>> THEN <<>> ELSE Head(lines) \o Flatten(Tail(lines))

Balanced(lines) == Matches(Flatten(lines), <<>>)

\* C15: after a balanced sequence of nesting delimiters split across lines
\* suggestedIndent is 0.
C15_BalancedZero ==
    (probe.fn = "suggestedIndent" /\ Balanced(probe.in)) => probe.out = 0

\* C15 witness: a balanced sequence that opens on one line and closes on a
\* later one was scanned.
C15_Witness ==
    /\ probe.fn = "suggestedIndent"
    /\ Balanced(probe.in)
    /\ Len(probe.in) >= 2
    /\ CountIn(<<probe.in[1]>>, {"{", "[", "("}) > CountIn(<<probe.in[1]>>, {"}", "]", ")"})
    /\ probe.out = 0

\* The pairs of the Brace Pair Table.
PairTable == {<<"{", "}">>, <<"[", "]">>, <<"(", ")">>, <<"\"", "\"">>,
              <<"'", "'">>, <<BACKQUOTE, BACKQUOTE>>}
SixOpeners == {"{", "[", "(", "\"", "'", BACKQUOTE}

\* C16: isBracePair(left, right) is true iff left is an opener and right
\* its closer in the table; it is true for every opener with its
\* getCloseBrace, and false when either argument is the empty string.
C16_PairIffTable ==
    /\ probe.fn = "isBracePair" =>
           /\ probe.out = (probe.in \in PairTable)
           /\ (probe.in[1] = "" \/ probe.in[2] = "") => probe.out = FALSE
    /\ \A o \in SixOpeners :
           /\ getCloseBrace(o) # <<>>
           /\ isBracePair(o, getCloseBrace(o)[1])

\* C16 witness: an opener was tested against the closer of another one.
C16_Witness ==
    /\ probe.fn = "isBracePair"
    /\ probe.in = <<"{", ")">>
    /\ probe.out = FALSE

\* C17: isOpenBrace holds exactly for the six openers of the Brace Pair
\* Table, and a key press schedules a closing-delimiter insertion exactly
\* for them: for Enter, a closing delimiter, a plain character or a
\* multi-character key name no such insertion is scheduled or pending.
C17_OpenersOnly ==
    /\ \A ch \in AllKeys \cup BraceChars :
           isOpenBrace(ch) <=> ch \in SixOpeners
    /\ probe.fn = "handleKeyPress" =>
           /\ probe.in \in SixOpeners => probe.out = <<probe.in>>
           /\ probe.in \notin SixOpeners =>
                  probe.out = IF probe.in = "Enter" THEN <<"Enter">> ELSE <<>>
    /\ \A i \in 1..Len(timers) : timers[i] \in SixOpeners \cup {"Enter"}

\* C17 witness: a multi-character key name was pressed and nothing was
\* scheduled.
C17_Witness ==
    /\ probe.fn = "handleKeyPress"
    /\ probe.in = "Backspace"
    /\ probe.out = <<>>
    /\ timers = <<>>

\* C18: isRegularBrace holds exactly for { [ ( and on Enter between a pair
\* the left character's class alone selects the closing line's
\* indentation: one unit less (at least 0) for a nesting delimiter, the
\* suggested indentation otherwise.
C18_ClassSelectsPolicy ==
    /\ \A ch \in AllKeys \cup BraceChars \cup DocChars :
           isRegularBrace(ch) <=> ch \in {"{", "[", "("}
    /\ EnterInPair =>
           value = Expanded(EditIndent,
                            IF EditLeft \in {"{", "[", "("}
                            THEN Max(EditIndent - INDENT_SIZE, 0)
                            ELSE EditIndent)

\* C18 witness: Enter between nesting delimiters at depth one: the closing
\* line loses the whole indentation.
C18_Witness ==
    /\ EnterInPair
    /\ EditLeft = "{"
    /\ EditIndent = INDENT_SIZE
    /\ value = Expanded(INDENT_SIZE, 0)

\* C19: getCloseBrace of a character that is no opener is empty and
\* addClosingBrace with it leaves the document as it is; every closing
\* delimiter insertion the editor runs or has pending is for an opener.
C19_CloseBraceGuarded ==
    /\ (probe.fn = "addClosingBrace" /\ ~isOpenBrace(probe.in)) =>
           /\ getCloseBrace(probe.in) = <<>>
           /\ probe.out = value
    /\ applied.op = "brace" => isOpenBrace(applied.key)
    /\ \A i \in 1..Len(timers) :
           timers[i] # "Enter" => isOpenBrace(timers[i])

\* C19 witness: addClosingBrace was called with a closing delimiter on a
\* non-empty document and returned it unchanged.
C19_Witness ==
    /\ probe.fn = "addClosingBrace"
    /\ probe.in = "}"
    /\ value # <<>>
    /\ probe.out = value

\* The text an Enter edit inserted, and its lines.
Inserted ==
    SubSeq(value, Min(Max(applied.start, 0), Len(applied.val)) + 1,
           Len(value) - (Len(applied.val)
                         - Min(Max(applied.start, 0), Len(applied.val))))
IsIndentation(line) ==
    /\ line = Spaces(Len(line))
    /\ Len(line) % INDENT_SIZE = 0

\* C20: on Enter the suggested indentation size and the indentation of
\* every inserted line (the inner line, and the closing line between a
\* pair) are non-negative multiples of INDENT_SIZE, whatever the spaces of
\* the preceding lines.
C20_UnitMultiples ==
    applied.op = "indent" =>
        /\ getSuggestedIndentSize(EditPreLines) >= 0
        /\ getSuggestedIndentSize(EditPreLines) % INDENT_SIZE = 0
        /\ Len(value) >= Len(applied.val)
        /\ Len(split(Inserted)) \in {1, 2}
        /\ \A k \in 1..Len(split(Inserted)) : IsIndentation(split(Inserted)[k])

\* C20 witness: Enter between a pair after a line that starts with a single
\* space: the inner line gets one unit, the closing line none.
C20_Witness ==
    /\ EnterInPair
    /\ LeadingSpaces(EditPreLines[1]) = 1
    /\ Len(split(Inserted)) = 2
    /\ Len(split(Inserted)[1]) = INDENT_SIZE
    /\ Len(split(Inserted)[2]) = 0

\* C21: getValue of the forwarded ref returns the current value, after any
\* sequence of text changes and deferred edits.
C21_GetValue == handleValue = value

\* C21 witness: a deferred edit changed the document and getValue returns
\* the edited document.
C21_Witness ==
    /\ applied.op = "brace"
    /\ value # applied.val
    /\ handleValue = value

\* C22: every change of the document is passed to onChange: the argument of
\* the last onChange call is the current document.
C22_OnChange == onChangeArg = value

\* C22 witness: a typed text with a tab was stored converted and onChange
\* got the converted text.
C22_Witness ==
    /\ Converted
    /\ HasTab(probe.in)
    /\ onChangeArg = probe.out
    /\ onChangeArg # probe.in

\* C23: a key press calls onKeyPress exactly once, with the pressed key,
\* whatever the key is, and at that time no edit ran: the edit the key
\* press scheduled is still the last pending one.
C23_OnKeyPressOnce ==
    probe.fn = "handleKeyPress" =>
        /\ probe.calls = <<probe.in>>
        /\ applied.op = "none"
        /\ probe.out # <<>> =>
               (timers # <<>> /\ timers[Len(timers)] = probe.in)

\* C23 witness: Enter was pressed, onKeyPress got it and its edit is
\* pending.
C23_Witness ==
    /\ probe.fn = "handleKeyPress"
    /\ probe.in = "Enter"
    /\ probe.calls = <<"Enter">>
    /\ timers = <<"Enter">>
    /\ applied.op = "none"

\* C29: every cursor position set through moveCursor lies within
\* [0, length of the resulting document].
C29_CursorInBounds ==
    applied.cursor # NoCursor =>
        (applied.cursor >= 0 /\ applied.cursor <= Len(value))

\* C24: with readOnly the document never changes, so it stays the
\* initialValue the editor was mounted with, whatever events arrive.
C24_ReadOnly == [][props.readOnly => value' = value]_vars

\* C24 witness: a read-only editor mounted with a non-empty initialValue
\* got a content-size event after all its mount timers ran.
C24_Witness ==
    /\ props.readOnly
    /\ value # <<>>
    /\ mountTimers = <<>>
    /\ probe.fn = "handleContentSizeChange"

\* C25: with preserveScrollPosition a change of the highlighted content
\* leaves the highlighter's scroll offset as it was; without it the
\* content change scrolls the highlighter to offset 0.
C25_PreserveScroll ==
    probe.fn = "contentChange" =>
        IF props.preserveScrollPosition
        THEN highlighterY = probe.before
        ELSE highlighterY = 0

\* C26: a scroll event of the text input leaves the highlighter where it
\* was while the flag is set, and while the flag is clear it scrolls the
\* highlighter to the event's offset, the offset of the text input.
C26_ScrollLock ==
    probe.fn = "handleScroll" =>
        IF probe.flag
        THEN highlighterY = probe.before
        ELSE highlighterY = probe.in /\ highlighterY = inputY

\* C26 witness: with the flag clear the text input scrolled to a new offset
\* and the highlighter followed.
C26_Witness ==
    /\ probe.fn = "handleScroll"
    /\ ~probe.flag
    /\ probe.in > 0
    /\ probe.before # probe.in
    /\ highlighterY = inputY

\* C27: the flag is reset after a period of time: whenever the flag is set,
\* the timer that clears it is pending, so that the flag becomes false once
\* input stops.
C27_ResetPending == shouldMaintainScrollTop => resetTimer

\* C28: with autoGrow a content-size change sets contentHeight to the
\* reported height clamped to the given bounds, so that it does not exceed
\* a given maxHeight nor fall below a given minHeight (for minHeight <=
\* maxHeight); without autoGrow contentHeight stays 0 and the editor has
\* the configured height.
C28_Clamped ==
    /\ (props.autoGrow /\ probe.fn = "handleContentSizeChange") =>
           LET lo == props.minHeight
               hi == props.maxHeight
           IN  (lo = Unset \/ hi = Unset \/ lo <= hi) =>
                   /\ contentHeight = probe.out
                   /\ hi # Unset => contentHeight <= hi
                   /\ lo # Unset => contentHeight >= lo
                   /\ contentHeight # probe.in
                          => contentHeight \in {lo, hi} \ {Unset}
    /\ ~props.autoGrow => (contentHeight = 0 /\ finalHeight = "height")

\* C30: with autoFocus the component calls focus() exactly once after
\* mount, whatever timers run; without autoFocus it never calls focus().
C30_FocusOnce ==
    IF props.autoFocus
    THEN /\ focusCount <= 1
         /\ mountTimers = <<>> => focusCount = 1
    ELSE focusCount = 0

====
